---------------------------- MODULE Spec2Model ----------------------------
(***************************************************************************)
(* A model of python_to_latex.py: the statement sequencer python_to_latex, *)
(* the renderers expr_to_latex and substitute_values, the value formatter  *)
(* format_value and the identifier renderer name_to_latex.                 *)
(*                                                                         *)
(* Python values are records [kind, n, d, jn, jd, s].  A float is the      *)
(* exact rational n/d (d > 0), or an infinity (d = 0, n = 1 or -1); a      *)
(* complex has the real part n/d and the imaginary part jn/jd.  An         *)
(* identifier is the sequence of its segments between underscores          *)
(* (V_in is <<"V", "in">>); NameStr gives the identifier as it is written. *)
(***************************************************************************)
EXTENDS Integers, Sequences, FiniteSets, TLC

VARIABLES
    code,               \* tree.body: the parsed statements (an input)
    show_symbolic,      \* the three render flags (inputs)
    show_substitution,
    show_result,
    namespace,          \* the execution namespace
    latex_lines,        \* the lines rendered so far
    simple_assignments, \* one flag per rendered line
    pos,                \* how many statements of tree.body the loop has consumed
    pc,                 \* "loop", "returned" or "raised"
    result_lines,       \* the assembled lines and separators
    latex,              \* the returned string
    node,               \* the renderers on their own: an expression tree,
    ns_in,              \* a namespace,
    rendered            \* and what the two renderers make of them

vars == <<code, show_symbolic, show_substitution, show_result, namespace,
          latex_lines, simple_assignments, pos, pc, result_lines, latex,
          node, ns_in, rendered>>

--------------------------------------------------------------------------
(* Numbers *)

Abs(x) == IF x < 0 THEN -x ELSE x

RECURSIVE Gcd(_, _)
Gcd(a, b) == IF b = 0 THEN a ELSE Gcd(b, a % b)

RECURSIVE Pow10(_)
Pow10(k) == IF k = 0 THEN 1 ELSE 10 * Pow10(k - 1)

RECURSIVE IntPow(_, _)
IntPow(b, k) == IF k = 0 THEN 1 ELSE b * IntPow(b, k - 1)

\* Python's // on integers: the floor of a / b, for either sign of b.
FloorDivInt(a, b) == IF b > 0 THEN a \div b ELSE (-a) \div (-b)

\* Python's % on integers: the result has the sign of b.
ModInt(a, b) == a - b * FloorDivInt(a, b)

\* round(): to the nearest integer, a tie to the even one.
NearestOf(q, r, d) ==
    IF 2 * r > d THEN q + 1
    ELSE IF 2 * r < d THEN q
    ELSE IF q % 2 = 0 THEN q ELSE q + 1

RoundHalfEven(n, d) == NearestOf(n \div d, n % d, d)

--------------------------------------------------------------------------
(* Values *)

Val(k, n, d, jn, jd, s) ==
    [kind |-> k, n |-> n, d |-> d, jn |-> jn, jd |-> jd, s |-> s]

IntV(i) == Val("int", i, 1, 0, 1, "")
BoolV(b) == Val("bool", IF b THEN 1 ELSE 0, 1, 0, 1, "")
NoneV == Val("none", 0, 1, 0, 1, "")
StrV(s) == Val("str", 0, 1, 0, 1, s)
FuncV(name) == Val("func", 0, 1, 0, 1, name)
ModuleV(name) == Val("module", 0, 1, 0, 1, name)
InfV(sign) == Val("float", sign, 0, 0, 1, "")

\* n/d in lowest terms with a positive denominator.
FloatV(n, d) ==
    LET g == Gcd(Abs(n), Abs(d))
        sg == IF d < 0 THEN -1 ELSE 1
    IN  Val("float", sg * (n \div g), sg * (d \div g), 0, 1, "")

ComplexV(n, d, jn, jd) ==
    LET g == Gcd(Abs(n), Abs(d))
        h == Gcd(Abs(jn), Abs(jd))
    IN  Val("complex", n \div g, d \div g, jn \div h, jd \div h, "")

IsInf(v) == v.kind = "float" /\ v.d = 0

--------------------------------------------------------------------------
(* Number formatting: the 'g' presentation type with 6 significant digits, *)
(* which f"{val:g}" and f"{val:.6g}" both are.                             *)

RECURSIVE NumDigits(_)
NumDigits(k) == IF k < 10 THEN 1 ELSE 1 + NumDigits(k \div 10)

RECURSIVE LeadZeros(_, _)
LeadZeros(r, d) == IF r * 10 >= d THEN 1 ELSE 1 + LeadZeros(r * 10, d)

\* The decimal exponent of a/d (a, d > 0): 10^e <= a/d < 10^(e+1).
Exp10(a, d) == IF a >= d THEN NumDigits(a \div d) - 1 ELSE -LeadZeros(a, d)

\* k more digits of long division: <<the digits read as a number, remainder>>.
RECURSIVE LongDiv(_, _, _, _)
LongDiv(v, r, d, k) ==
    IF k = 0 THEN <<v, r>>
    ELSE LongDiv(v * 10 + ((r * 10) \div d), (r * 10) % d, d, k - 1)

\* The first `sig` digits of a/d, whose exponent is e, and what is left:
\* <<the digits read as a number, remainder, divisor>>.
Leading(a, d, sig, e) ==
    IF e <= sig - 1
    THEN LongDiv(a \div d, a % d, d, sig - 1 - e) \o <<d>>
    ELSE <<a \div (d * Pow10(e - sig + 1)), a % (d * Pow10(e - sig + 1)),
           d * Pow10(e - sig + 1)>>

\* The digits rounded on what is left, a tie to the even digit.
RoundDigits(vr) ==
    IF 2 * vr[2] > vr[3] \/ (2 * vr[2] = vr[3] /\ vr[1] % 2 = 1)
    THEN vr[1] + 1 ELSE vr[1]

\* 9.999995 rounds to 10.0000: one digit more, which the exponent takes.
Carry(m, e, sig) ==
    IF m = Pow10(sig) THEN <<Pow10(sig - 1), e + 1>> ELSE <<m, e>>

SigDigitsAt(a, d, sig, e) == Carry(RoundDigits(Leading(a, d, sig, e)), e, sig)

\* a/d rounded to `sig` significant digits: <<digits as a number, exponent>>.
SigDigits(a, d, sig) == SigDigitsAt(a, d, sig, Exp10(a, d))

\* Trailing zeros removed: <<digits, how many of them are decimals>>.
RECURSIVE StripZeros(_, _)
StripZeros(m, decimals) ==
    IF decimals > 0 /\ m % 10 = 0 THEN StripZeros(m \div 10, decimals - 1)
    ELSE <<m, decimals>>

RECURSIVE Zeros(_)
Zeros(k) == IF k = 0 THEN "" ELSE "0" \o Zeros(k - 1)

\* The integer part ip and the fraction fp of `decimals` digits.
Decimal(ip, fp, decimals) ==
    IF decimals = 0 THEN ToString(ip)
    ELSE ToString(ip) \o "." \o Zeros(decimals - NumDigits(fp)) \o ToString(fp)

FixedStripped(s) == Decimal(s[1] \div Pow10(s[2]), s[1] % Pow10(s[2]), s[2])

\* m with `decimals` digits after the point.
Fixed(m, decimals) == FixedStripped(StripZeros(m, decimals))

\* Fixed notation for the exponents -4..5, the scientific one otherwise.
FmtDigits(sign, sd) ==
    IF sd[2] >= -4 /\ sd[2] < 6
    THEN sign \o Fixed(sd[1], 5 - sd[2])
    ELSE sign \o Fixed(sd[1], 5)
              \o (IF sd[2] < 0 THEN "e-" ELSE "e+")
              \o (IF Abs(sd[2]) < 10 THEN "0" ELSE "") \o ToString(Abs(sd[2]))

FmtG(v) ==
    IF v.d = 0 THEN (IF v.n < 0 THEN "-inf" ELSE "inf")
    ELSE IF v.n = 0 THEN "0"
    ELSE FmtDigits(IF v.n < 0 THEN "-" ELSE "", SigDigits(Abs(v.n), v.d, 6))

\* The real and the imaginary part of a complex, as floats.
RealPart(v) == Val("float", v.n, v.d, 0, 1, "")
ImagPart(v) == Val("float", v.jn, v.jd, 0, 1, "")

--------------------------------------------------------------------------
(* str() of the values the model holds.  A float's repr is given where it  *)
(* has at most 6 significant digits; the model builds no other float that  *)
(* reaches str().                                                          *)

ExactDigits(v, sd) ==
    /\ sd[2] >= -4 /\ sd[2] <= 5
    /\ sd[1] * v.d = Abs(v.n) * Pow10(5 - sd[2])

Exact6(v) == ExactDigits(v, SigDigits(Abs(v.n), v.d, 6))

FloatRepr(v) ==
    CASE v.d = 1 -> ToString(v.n)
      [] v.d > 1 /\ Exact6(v) -> FmtG(v)

ComplexParts(v, real, imag) ==
    IF v.n = 0 THEN imag \o "j"
    ELSE "(" \o real \o (IF v.jn >= 0 THEN "+" ELSE "") \o imag \o "j)"

ComplexRepr(v) ==
    ComplexParts(v, FloatRepr(RealPart(v)), FloatRepr(ImagPart(v)))

PyStr(v) ==
    CASE v.kind = "int" -> ToString(v.n)
      [] v.kind = "bool" -> (IF v.n = 1 THEN "True" ELSE "False")
      [] v.kind = "none" -> "None"
      [] v.kind = "str" -> v.s
      [] v.kind = "func" -> "<built-in function " \o v.s \o ">"
      [] v.kind = "complex" -> ComplexRepr(v)

--------------------------------------------------------------------------
(* What a function of the program gives back: a string, or the exception   *)
(* it raised.                                                              *)

Ok(s) == [exc |-> "", s |-> s]
Raise(e) == [exc |-> e, s |-> ""]
Raised(r) == r.exc # ""

Bind1(r, F(_)) == IF Raised(r) THEN r ELSE Ok(F(r.s))
Bind2(r1, r2, F(_, _)) ==
    IF Raised(r1) THEN r1 ELSE IF Raised(r2) THEN r2 ELSE Ok(F(r1.s, r2.s))
Bind3(r1, r2, r3, F(_, _, _)) ==
    IF Raised(r1) THEN r1
    ELSE IF Raised(r2) THEN r2
    ELSE IF Raised(r3) THEN r3
    ELSE Ok(F(r1.s, r2.s, r3.s))

\* args[k] of a Python list (k from 0): the element, or IndexError.
Arg(args, k) == IF k < Len(args) THEN Ok(args[k + 1]) ELSE Raise("IndexError")

RECURSIVE Join(_, _)
Join(strs, sep) ==
    IF Len(strs) = 0 THEN ""
    ELSE IF Len(strs) = 1 THEN strs[1]
    ELSE strs[1] \o sep \o Join(Tail(strs), sep)

--------------------------------------------------------------------------
(* format_value *)

JoinComplex(real, imag, imag_val) ==
    IF real # "" /\ imag_val.n >= 0 THEN real \o " + " \o imag
    ELSE IF real # "" THEN real \o " " \o imag
    ELSE imag

ImagToLatex(imag_val) ==
    IF imag_val.n = imag_val.d THEN "j"
    ELSE IF imag_val.n = -imag_val.d THEN "-j"
    ELSE FmtG(imag_val) \o "j"

FormatComplex(val) ==
    JoinComplex(IF val.n # 0 THEN FmtG(RealPart(val)) ELSE "",
                ImagToLatex(ImagPart(val)), ImagPart(val))

\* diff / d < 1e-10, for diff >= 0 and d > 0.
Below1e10(diff, d) ==
    \/ diff = 0
    \/ /\ diff # 0
       /\ (d \div diff) \div 100000 >= 100000
       /\ ~(/\ (d \div diff) \div 100000 = 100000
            /\ (d \div diff) % 100000 = 0
            /\ d % diff = 0)

\* abs(val - round(val)) < 1e-10, for the rational n/d.
NearInteger(val) ==
    Below1e10(Abs(val.n - RoundHalfEven(val.n, val.d) * val.d), val.d)

FormatFloat(val) ==
    IF IsInf(val) THEN Raise("OverflowError")
    ELSE IF NearInteger(val) THEN Ok(ToString(RoundHalfEven(val.n, val.d)))
    ELSE Ok(FmtG(val))

FormatBool(val) == IF val.n = 1 THEN "\\text{True}" ELSE "\\text{False}"

format_value(val) ==
    IF val.kind = "complex" THEN Ok(FormatComplex(val))
    ELSE IF val.kind = "float" THEN FormatFloat(val)
    ELSE IF val.kind = "bool" THEN Ok(FormatBool(val))
    ELSE Ok(PyStr(val))

--------------------------------------------------------------------------
(* name_to_latex *)

GREEK_LETTERS ==
    [alpha |-> "\\alpha", beta |-> "\\beta", gamma |-> "\\gamma",
     Gamma |-> "\\Gamma", delta |-> "\\delta", Delta |-> "\\Delta",
     epsilon |-> "\\epsilon", varepsilon |-> "\\varepsilon",
     zeta |-> "\\zeta", eta |-> "\\eta",
     theta |-> "\\theta", Theta |-> "\\Theta", vartheta |-> "\\vartheta",
     iota |-> "\\iota", kappa |-> "\\kappa",
     lambda_ |-> "\\lambda",
     Lambda |-> "\\Lambda",
     mu |-> "\\mu", nu |-> "\\nu", xi |-> "\\xi", Xi |-> "\\Xi",
     Pi |-> "\\Pi", varpi |-> "\\varpi",
     rho |-> "\\rho", varrho |-> "\\varrho",
     sigma |-> "\\sigma", Sigma |-> "\\Sigma", varsigma |-> "\\varsigma",
     tau |-> "\\tau",
     upsilon |-> "\\upsilon", Upsilon |-> "\\Upsilon",
     phi |-> "\\phi", Phi |-> "\\Phi", varphi |-> "\\varphi",
     chi |-> "\\chi",
     psi |-> "\\psi", Psi |-> "\\Psi",
     omega |-> "\\omega", Omega |-> "\\Omega",
     ohm |-> "\\Omega",
     inf |-> "\\infty"]

\* dict.get(key, default)
Get(table, key, default) ==
    IF key \in DOMAIN table THEN table[key] ELSE default

\* The identifier as written: its segments joined by underscores.
NameStr(id) == Join(id, "_")

\* GREEK_LETTERS.get(part, part)
Greek(part) == Get(GREEK_LETTERS, part, part)

\* '_' in name: the name has more than one segment, and split('_', 1) gives
\* the first segment and the rest.
name_to_latex(id) ==
    IF Len(id) > 1
    THEN Greek(id[1]) \o "_{" \o Greek(Join(Tail(id), "_")) \o "}"
    ELSE Greek(NameStr(id))

--------------------------------------------------------------------------
(* The syntax tree (module ast): a node is a record whose `type` names its *)
(* class and whose other fields are the fields of that class.              *)

Constant(v) == [type |-> "Constant", value |-> v]
Name(id) == [type |-> "Name", id |-> id]
BinOp(l, op, r) == [type |-> "BinOp", left |-> l, op |-> op, right |-> r]
UnaryOp(op, x) == [type |-> "UnaryOp", op |-> op, operand |-> x]
Call(f, args, kws) ==
    [type |-> "Call", func |-> f, args |-> args, keywords |-> kws]
Keyword(arg, v) == [arg |-> arg, value |-> v]
Attribute(v, attr) == [type |-> "Attribute", value |-> v, attr |-> attr]
Compare(l, ops, cs) ==
    [type |-> "Compare", left |-> l, ops |-> ops, comparators |-> cs]
IfExp(test, body, orelse) ==
    [type |-> "IfExp", test |-> test, body |-> body, orelse |-> orelse]
Subscript(v, slice) == [type |-> "Subscript", value |-> v, slice |-> slice]
List(elts) == [type |-> "List", elts |-> elts]
Tuple(elts) == [type |-> "Tuple", elts |-> elts]
NamedExpr(target, v) ==
    [type |-> "NamedExpr", target |-> target, value |-> v]

Assign(targets, v) == [type |-> "Assign", targets |-> targets, value |-> v]
AugAssign(target, op, v) ==
    [type |-> "AugAssign", target |-> target, op |-> op, value |-> v]
Expr(v) == [type |-> "Expr", value |-> v]
Import(name) == [type |-> "Import", name |-> name]

--------------------------------------------------------------------------
(* expr_to_latex *)

ConstantToLatex(val) ==
    IF val.kind = "float"
    THEN IF val = InfV(1) THEN "\\infty"
         ELSE IF val = InfV(-1) THEN "-\\infty"
         ELSE FmtG(val)
    ELSE PyStr(val)

\* The precedence test of one operand (the same for the left and the right).
\* A variant of NeedsParen: an operand with + or - is wrapped under % too.
NeedsParenUnderMod(operand, op) ==
    /\ operand.type = "BinOp"
    /\ operand.op \in {"Add", "Sub"}
    /\ op \in {"Mult", "Div", "Pow", "Mod"}

NeedsParen(operand, op) ==
    /\ operand.type = "BinOp"
    /\ operand.op \in {"Add", "Sub"}
    /\ op \in {"Mult", "Div", "Pow"}

Paren(s) == "\\left(" \o s \o "\\right)"

left_paren(n) == NeedsParen(n.left, n.op)
right_paren(n) == NeedsParen(n.right, n.op)

BinOpTemplate(op, left, right) ==
    IF op = "Add" THEN left \o " + " \o right
    ELSE IF op = "Sub" THEN left \o " - " \o right
    ELSE IF op = "Mult" THEN left \o " \\cdot " \o right
    ELSE IF op = "Div" THEN "\\frac{" \o left \o "}{" \o right \o "}"
    ELSE IF op = "FloorDiv"
    THEN "\\left\\lfloor\\frac{" \o left \o "}{" \o right \o "}\\right\\rfloor"
    ELSE IF op = "Pow" THEN left \o "^{" \o right \o "}"
    ELSE IF op = "Mod" THEN left \o " \\mod " \o right
    ELSE left \o " \\text{op} " \o right

\* l and r are the operands as rendered.
BinOpToLatex(n, l, r) ==
    BinOpTemplate(n.op,
                  IF left_paren(n) THEN Paren(l) ELSE l,
                  IF right_paren(n) /\ n.op # "Div" THEN Paren(r) ELSE r)

UnaryOpToLatex(op, operand) ==
    IF op = "USub" THEN "-" \o operand
    ELSE IF op = "UAdd" THEN "+" \o operand
    ELSE IF op = "Not" THEN "\\neg " \o operand
    ELSE operand

FuncName(func) ==
    IF func.type = "Name" THEN NameStr(func.id)
    ELSE IF func.type = "Attribute" THEN func.attr
    ELSE "func"

Wrap(head, s) == head \o "\\left(" \o s \o "\\right)"

\* The template of a call: args are the rendered positional arguments.
CallToLatex(func_name, args) ==
    IF func_name = "sqrt"
    THEN Bind1(Arg(args, 0), LAMBDA a: "\\sqrt{" \o a \o "}")
    ELSE IF func_name = "abs"
    THEN Bind1(Arg(args, 0), LAMBDA a: "\\left|" \o a \o "\\right|")
    ELSE IF func_name \in {"sin", "cos", "tan", "cot", "sec", "csc"}
    THEN Bind1(Arg(args, 0), LAMBDA a: Wrap("\\" \o func_name, a))
    ELSE IF func_name \in {"sinh", "cosh", "tanh"}
    THEN Bind1(Arg(args, 0), LAMBDA a: Wrap("\\" \o func_name, a))
    ELSE IF func_name \in {"asin", "arcsin"}
    THEN Bind1(Arg(args, 0), LAMBDA a: Wrap("\\arcsin", a))
    ELSE IF func_name \in {"acos", "arccos"}
    THEN Bind1(Arg(args, 0), LAMBDA a: Wrap("\\arccos", a))
    ELSE IF func_name \in {"atan", "arctan"}
    THEN Bind1(Arg(args, 0), LAMBDA a: Wrap("\\arctan", a))
    ELSE IF func_name = "atan2"
    THEN Bind2(Arg(args, 0), Arg(args, 1),
               LAMBDA a, b: Wrap("\\arctan", "\\frac{" \o a \o "}{" \o b \o "}"))
    ELSE IF func_name = "log"
    THEN IF Len(args) = 1
         THEN Bind1(Arg(args, 0), LAMBDA a: Wrap("\\ln", a))
         ELSE Bind2(Arg(args, 1), Arg(args, 0),
                    LAMBDA b, a: Wrap("\\log_{" \o b \o "}", a))
    ELSE IF func_name \in {"ln", "log"}
    THEN Bind1(Arg(args, 0), LAMBDA a: Wrap("\\ln", a))
    ELSE IF func_name = "log10"
    THEN Bind1(Arg(args, 0), LAMBDA a: Wrap("\\log_{10}", a))
    ELSE IF func_name = "log2"
    THEN Bind1(Arg(args, 0), LAMBDA a: Wrap("\\log_{2}", a))
    ELSE IF func_name = "exp"
    THEN Bind1(Arg(args, 0), LAMBDA a: "e^{" \o a \o "}")
    ELSE IF func_name = "pow"
    THEN Bind2(Arg(args, 0), Arg(args, 1), LAMBDA a, b: a \o "^{" \o b \o "}")
    ELSE IF func_name = "max" THEN Ok(Wrap("\\max", Join(args, ", ")))
    ELSE IF func_name = "min" THEN Ok(Wrap("\\min", Join(args, ", ")))
    ELSE IF func_name = "sum"
    THEN Bind1(Arg(args, 0), LAMBDA a: "\\sum " \o a)
    ELSE IF func_name = "round" THEN Arg(args, 0)
    ELSE Ok(Wrap("\\text{" \o func_name \o "}", Join(args, ", ")))

CompareOpToLatex(op, right) ==
    IF op = "Eq" THEN " = " \o right
    ELSE IF op = "NotEq" THEN " \\neq " \o right
    ELSE IF op = "Lt" THEN " < " \o right
    ELSE IF op = "Gt" THEN " > " \o right
    ELSE IF op = "LtE" THEN " \\leq " \o right
    ELSE IF op = "GtE" THEN " \\geq " \o right
    ELSE ""

RECURSIVE CompareToLatex(_, _, _)
CompareToLatex(result, ops, rights) ==
    IF Len(ops) = 0 \/ Len(rights) = 0 THEN result
    ELSE CompareToLatex(result \o CompareOpToLatex(ops[1], rights[1]),
                        Tail(ops), Tail(rights))

\* What a list comprehension over rendered nodes gives: the list, or the
\* first exception.
ListOk(list) == [exc |-> "", list |-> list]
ListRaise(e) == [exc |-> e, list |-> <<>>]

RECURSIVE expr_to_latex(_, _)
RECURSIVE ExprsToLatex(_, _)

\* The first element rendered before the others.
Cons(first, others) ==
    IF Raised(first) THEN ListRaise(first.exc)
    ELSE IF Raised(others) THEN others
    ELSE ListOk(<<first.s>> \o others.list)

\* A template applied to the rendered list.
OnList(r, F(_)) == IF Raised(r) THEN Raise(r.exc) ELSE F(r.list)

ExprsToLatex(nodes, ns) ==
    IF Len(nodes) = 0 THEN ListOk(<<>>)
    ELSE Cons(expr_to_latex(nodes[1], ns), ExprsToLatex(Tail(nodes), ns))

expr_to_latex(n, ns) ==
    IF n.type = "Constant" THEN Ok(ConstantToLatex(n.value))
    ELSE IF n.type = "Name" THEN Ok(name_to_latex(n.id))
    ELSE IF n.type = "BinOp"
    THEN Bind2(expr_to_latex(n.left, ns), expr_to_latex(n.right, ns),
               LAMBDA l, r: BinOpToLatex(n, l, r))
    ELSE IF n.type = "UnaryOp"
    THEN Bind1(expr_to_latex(n.operand, ns),
               LAMBDA x: UnaryOpToLatex(n.op, x))
    ELSE IF n.type = "Call"
    THEN OnList(ExprsToLatex(n.args, ns),
                LAMBDA args: CallToLatex(FuncName(n.func), args))
    ELSE IF n.type = "Compare"
    THEN OnList(Cons(expr_to_latex(n.left, ns),
                     ExprsToLatex(n.comparators, ns)),
                LAMBDA all: Ok(CompareToLatex(all[1], n.ops, Tail(all))))
    ELSE IF n.type = "IfExp"
    THEN Bind3(expr_to_latex(n.test, ns), expr_to_latex(n.body, ns),
               expr_to_latex(n.orelse, ns),
               LAMBDA test, body, orelse:
                   "\\begin{cases} " \o body \o " & \\text{if } " \o test
                   \o " \\\\ " \o orelse \o " & \\text{otherwise} \\end{cases}")
    ELSE IF n.type = "Subscript"
    THEN Bind2(expr_to_latex(n.value, ns),
               IF n.slice.type = "Constant" THEN Ok(PyStr(n.slice.value))
               ELSE expr_to_latex(n.slice, ns),
               LAMBDA value, idx: value \o "_{" \o idx \o "}")
    ELSE IF n.type \in {"List", "Tuple"}
    THEN OnList(ExprsToLatex(n.elts, ns),
                LAMBDA elements:
                    Ok("\\left[" \o Join(elements, ", ") \o "\\right]"))
    ELSE Ok("\\text{?}")

--------------------------------------------------------------------------
(* substitute_values *)

\* f"{val:g}" of a float, str(val) of anything else.
PlainStr(val) == IF val.kind = "float" THEN FmtG(val) ELSE PyStr(val)

\* namespace.get(name): the value, or None.
NsGet(ns, name) == IF name \in DOMAIN ns THEN ns[name] ELSE NoneV

NameToSubstituted(id, ns) ==
    IF NsGet(ns, NameStr(id)) = NoneV THEN name_to_latex(id)
    ELSE PlainStr(NsGet(ns, NameStr(id)))

BinOpToSubstituted(op, left, right) ==
    IF op = "Add" THEN left \o " + " \o right
    ELSE IF op = "Sub" THEN left \o " - " \o right
    ELSE IF op = "Mult" THEN left \o " \\cdot " \o right
    ELSE IF op = "Div" THEN "\\frac{" \o left \o "}{" \o right \o "}"
    ELSE IF op = "Pow" THEN left \o "^{" \o right \o "}"
    ELSE IF op = "Mod" THEN left \o " \\mod " \o right
    ELSE left \o " ? " \o right

CallToSubstituted(func_name, args) ==
    IF func_name = "sqrt"
    THEN Bind1(Arg(args, 0), LAMBDA a: "\\sqrt{" \o a \o "}")
    ELSE IF func_name = "abs"
    THEN Bind1(Arg(args, 0), LAMBDA a: "\\left|" \o a \o "\\right|")
    ELSE IF func_name \in {"sin", "cos", "tan", "log", "exp"}
    THEN Bind1(Arg(args, 0), LAMBDA a: Wrap("\\" \o func_name, a))
    ELSE Ok(Wrap("\\text{" \o func_name \o "}", Join(args, ", ")))

RECURSIVE substitute_values(_, _)
RECURSIVE SubstituteAll(_, _)

SubstituteAll(nodes, ns) ==
    IF Len(nodes) = 0 THEN ListOk(<<>>)
    ELSE Cons(substitute_values(nodes[1], ns), SubstituteAll(Tail(nodes), ns))

substitute_values(n, ns) ==
    IF n.type = "Constant" THEN Ok(PlainStr(n.value))
    ELSE IF n.type = "Name" THEN Ok(NameToSubstituted(n.id, ns))
    ELSE IF n.type = "BinOp"
    THEN Bind2(substitute_values(n.left, ns), substitute_values(n.right, ns),
               LAMBDA l, r: BinOpToSubstituted(n.op, l, r))
    ELSE IF n.type = "UnaryOp"
    THEN Bind1(substitute_values(n.operand, ns),
               LAMBDA x: IF n.op = "USub" THEN "-" \o x ELSE x)
    ELSE IF n.type = "Call"
    THEN OnList(SubstituteAll(n.args, ns),
                LAMBDA args:
                    CallToSubstituted(IF n.func.type = "Name"
                                      THEN NameStr(n.func.id) ELSE "func",
                                      args))
    ELSE expr_to_latex(n, ns)

--------------------------------------------------------------------------
(* exec(compile(...), namespace): the evaluation of one statement.         *)
(* An evaluation gives [exc, val, ns]: the exception raised ("" for none), *)
(* the value, and the namespace as the evaluation left it.  Arithmetic is  *)
(* exact on the rationals.  A CASE without an arm for some operands marks  *)
(* an operation whose result is no such value (sqrt(2), 2 ** 0.5, ...):    *)
(* the statements drawn below never reach one.                             *)

EvOk(v, ns) == [exc |-> "", val |-> v, ns |-> ns]
EvRaise(e, ns) == [exc |-> e, val |-> NoneV, ns |-> ns]
ValOk(v) == [exc |-> "", val |-> v]
ValRaise(e) == [exc |-> e, val |-> NoneV]

IsNumber(v) == v.kind \in {"bool", "int", "float", "complex"}
IsReal(v) == v.kind \in {"bool", "int", "float"}
IsIntegral(v) == v.kind \in {"bool", "int"}
IsZero(v) == v.n = 0 /\ v.jn = 0 /\ v.d # 0
Finite(v) == v.d # 0

\* bool(v)
Truthy(v) ==
    CASE IsNumber(v) -> ~IsZero(v)
      [] v.kind = "none" -> FALSE
      [] v.kind = "str" -> v.s # ""
      [] v.kind \in {"func", "module"} -> TRUE

\* a < b for real numbers.
LessThan(a, b) == a.n * b.d < b.n * a.d

\* The result of a real operation whose operands are a and b, as the
\* operands' common type: an int stays an int, a float makes a float.
RealResult(a, b, n, d) ==
    IF IsIntegral(a) /\ IsIntegral(b) THEN IntV(n \div d) ELSE FloatV(n, d)

\* b ** k for a rational b and an integer k.
RationalPow(a, k) ==
    IF k >= 0 THEN <<IntPow(a.n, k), IntPow(a.d, k)>>
    ELSE <<IntPow(a.d, -k), IntPow(a.n, -k)>>

RealArith(op, a, b) ==
    CASE op = "Add" ->
            ValOk(RealResult(a, b, a.n * b.d + b.n * a.d, a.d * b.d))
      [] op = "Sub" ->
            ValOk(RealResult(a, b, a.n * b.d - b.n * a.d, a.d * b.d))
      [] op = "Mult" -> ValOk(RealResult(a, b, a.n * b.n, a.d * b.d))
      [] op = "Div" ->
            IF IsZero(b) THEN ValRaise("ZeroDivisionError")
            ELSE ValOk(FloatV(a.n * b.d, a.d * b.n))
      [] op = "FloorDiv" ->
            IF IsZero(b) THEN ValRaise("ZeroDivisionError")
            ELSE ValOk(RealResult(a, b, FloorDivInt(a.n * b.d, a.d * b.n), 1))
      [] op = "Mod" ->
            IF IsZero(b) THEN ValRaise("ZeroDivisionError")
            ELSE ValOk(RealResult(a, b,
                     a.n * b.d - b.n * a.d * FloorDivInt(a.n * b.d, a.d * b.n),
                     a.d * b.d))
      [] op = "Pow" /\ IsIntegral(b) ->
            IF IsZero(a) /\ b.n < 0 THEN ValRaise("ZeroDivisionError")
            ELSE LET p == RationalPow(a, b.n)
                 IN  IF IsIntegral(a) /\ b.n >= 0 THEN ValOk(IntV(p[1]))
                     ELSE ValOk(FloatV(p[1], p[2]))
      [] op \notin {"Add", "Sub", "Mult", "Div", "FloorDiv", "Mod", "Pow"}
         /\ (a.kind = "float" \/ b.kind = "float") -> ValRaise("TypeError")

ComplexArith(op, a, b) ==
    CASE op = "Add" ->
            ValOk(ComplexV(a.n * b.d + b.n * a.d, a.d * b.d,
                           a.jn * b.jd + b.jn * a.jd, a.jd * b.jd))
      [] op = "Sub" ->
            ValOk(ComplexV(a.n * b.d - b.n * a.d, a.d * b.d,
                           a.jn * b.jd - b.jn * a.jd, a.jd * b.jd))
      [] op = "Mult" ->
            ValOk(ComplexV(
                a.n * b.n * a.jd * b.jd - a.jn * b.jn * a.d * b.d,
                a.d * b.d * a.jd * b.jd,
                a.n * b.jn * a.jd * b.d + a.jn * b.n * a.d * b.jd,
                a.d * b.jd * a.jd * b.d))
      [] op \in {"FloorDiv", "Mod"} -> ValRaise("TypeError")

\* left op right, for values.
Arith(op, a, b) ==
    CASE ~IsNumber(a) /\ a.kind # "str" -> ValRaise("TypeError")
      [] IsNumber(a) /\ ~IsNumber(b) /\ b.kind # "str" -> ValRaise("TypeError")
      [] IsReal(a) /\ IsReal(b) /\ Finite(a) /\ Finite(b) -> RealArith(op, a, b)
      [] IsNumber(a) /\ IsNumber(b) /\ Finite(a) /\ Finite(b)
         /\ (a.kind = "complex" \/ b.kind = "complex") -> ComplexArith(op, a, b)

Unary(op, a) ==
    CASE op = "Not" -> ValOk(BoolV(~Truthy(a)))
      [] op \in {"USub", "UAdd"} /\ ~IsNumber(a) -> ValRaise("TypeError")
      [] op = "UAdd" /\ IsIntegral(a) -> ValOk(IntV(a.n))
      [] op = "UAdd" /\ IsNumber(a) -> ValOk(a)
      [] op = "USub" /\ IsIntegral(a) -> ValOk(IntV(-a.n))
      [] op = "USub" /\ IsNumber(a) -> ValOk([a EXCEPT !.n = -a.n, !.jn = -a.jn])

CompareValues(op, a, b) ==
    CASE op = "Eq" /\ IsNumber(a) /\ IsNumber(b) ->
            ValOk(BoolV(a.n * b.d = b.n * a.d /\ a.jn * b.jd = b.jn * a.jd))
      [] op = "NotEq" /\ IsNumber(a) /\ IsNumber(b) ->
            ValOk(BoolV(~(a.n * b.d = b.n * a.d /\ a.jn * b.jd = b.jn * a.jd)))
      [] op \in {"Lt", "Gt", "LtE", "GtE"} /\ ~(IsReal(a) /\ IsReal(b))
         /\ a.kind # "str" ->
            ValRaise("TypeError")
      [] op = "Lt" /\ IsReal(a) /\ IsReal(b) -> ValOk(BoolV(LessThan(a, b)))
      [] op = "Gt" /\ IsReal(a) /\ IsReal(b) -> ValOk(BoolV(LessThan(b, a)))
      [] op = "LtE" /\ IsReal(a) /\ IsReal(b) -> ValOk(BoolV(~LessThan(b, a)))
      [] op = "GtE" /\ IsReal(a) /\ IsReal(b) -> ValOk(BoolV(~LessThan(a, b)))

--------------------------------------------------------------------------
(* Calls of the functions the namespace holds *)

\* The keyword argument `name`, or <<>> when it is not given.
RECURSIVE KwArg(_, _)
KwArg(kws, name) ==
    IF Len(kws) = 0 THEN <<>>
    ELSE IF kws[1].arg = name THEN <<kws[1].value>>
    ELSE KwArg(Tail(kws), name)

\* The parameter at position k (from 1) called `name`: positional, else by
\* keyword, else <<>>.
Param(args, kws, k, name) ==
    IF k <= Len(args) THEN <<args[k]>> ELSE KwArg(kws, name)

IsSquare(k) == \E r \in 0..k : r * r = k
Isqrt(k) == CHOOSE r \in 0..k : r * r = k

RECURSIVE Extreme(_, _)
Extreme(vals, wantMax) ==
    IF Len(vals) = 1 THEN vals[1]
    ELSE LET rest == Extreme(Tail(vals), wantMax)
         IN  IF wantMax
             THEN (IF LessThan(vals[1], rest) THEN rest ELSE vals[1])
             ELSE (IF LessThan(rest, vals[1]) THEN rest ELSE vals[1])

\* The functions of module math with one argument, at the arguments where
\* the result is rational.
MathUnary(name, x) ==
    CASE ~IsReal(x) -> ValRaise("TypeError")
      [] name = "sqrt" /\ IsReal(x) /\ x.n < 0 -> ValRaise("ValueError")
      [] name = "sqrt" /\ IsReal(x) /\ x.n >= 0 /\ IsSquare(x.n) /\ IsSquare(x.d) ->
            ValOk(FloatV(Isqrt(x.n), Isqrt(x.d)))
      [] name \in {"sin", "tan", "asin", "atan", "sinh", "tanh"}
         /\ IsReal(x) /\ x.n = 0 -> ValOk(FloatV(0, 1))
      [] name \in {"cos", "cosh", "exp"} /\ IsReal(x) /\ x.n = 0 ->
            ValOk(FloatV(1, 1))
      [] name \in {"log", "log10", "acos"} /\ IsReal(x) /\ x.n = x.d ->
            ValOk(FloatV(0, 1))
      [] name \in {"log", "log10"} /\ IsReal(x) /\ x.n <= 0 ->
            ValRaise("ValueError")

MathNames ==
    {"sqrt", "sin", "cos", "tan", "asin", "acos", "atan", "sinh", "cosh",
     "tanh", "log", "log10", "exp"}

ApplyFunc(name, args, kws) ==
    CASE name \in MathNames \ {"log"} ->
            IF Len(kws) > 0 \/ Len(args) # 1 THEN ValRaise("TypeError")
            ELSE MathUnary(name, args[1])
      [] name = "log" /\ (Len(kws) > 0 \/ Len(args) = 0 \/ Len(args) > 2) ->
            ValRaise("TypeError")
      [] name = "log" /\ Len(kws) = 0 /\ Len(args) = 1 ->
            MathUnary(name, args[1])
      [] name = "abs" ->
            IF Len(kws) > 0 \/ Len(args) # 1 THEN ValRaise("TypeError")
            ELSE IF ~IsNumber(args[1]) THEN ValRaise("TypeError")
            ELSE IF IsIntegral(args[1]) THEN ValOk(IntV(Abs(args[1].n)))
            ELSE (CASE args[1].kind = "float" ->
                        ValOk([args[1] EXCEPT !.n = Abs(args[1].n)]))
      [] name = "round" ->
            LET number == Param(args, kws, 1, "number")
                ndigits == Param(args, kws, 2, "ndigits")
            IN  IF number = <<>> \/ Len(args) > 2 THEN ValRaise("TypeError")
                ELSE (CASE ndigits = <<>> /\ ~IsReal(number[1]) ->
                            ValRaise("TypeError")
                        [] ndigits = <<>> /\ IsIntegral(number[1]) ->
                            ValOk(IntV(number[1].n))
                        [] ndigits = <<>> /\ IsInf(number[1]) ->
                            ValRaise("OverflowError")
                        [] ndigits = <<>> /\ number[1].kind = "float"
                           /\ Finite(number[1]) ->
                            ValOk(IntV(RoundHalfEven(number[1].n,
                                                     number[1].d))))
      [] name = "pow" ->
            LET base == Param(args, kws, 1, "base")
                exp == Param(args, kws, 2, "exp")
                mod == Param(args, kws, 3, "mod")
            IN  IF base = <<>> \/ exp = <<>> \/ Len(args) > 3
                THEN ValRaise("TypeError")
                ELSE (CASE mod = <<>> -> Arith("Pow", base[1], exp[1]))
      [] name \in {"max", "min"} /\ Len(kws) = 0 ->
            IF Len(args) < 2 THEN ValRaise("TypeError")
            ELSE IF \E k \in 1..Len(args) : ~IsReal(args[k])
            THEN (CASE \A k \in 1..Len(args) : IsNumber(args[k]) ->
                        ValRaise("TypeError"))
            ELSE ValOk(Extreme(args, name = "max"))
      [] name = "float" /\ Len(kws) = 0 /\ Len(args) = 1 /\ IsReal(args[1]) ->
            ValOk([args[1] EXCEPT !.kind = "float"])
      [] name = "int" /\ Len(kws) = 0 /\ Len(args) = 1 /\ IsReal(args[1])
         /\ Finite(args[1]) ->
            ValOk(IntV(IF args[1].n >= 0 THEN args[1].n \div args[1].d
                       ELSE -((-args[1].n) \div args[1].d)))

\* The names module builtins resolves that the model gives a meaning.
Builtins == [float |-> FuncV("float"), int |-> FuncV("int")]

--------------------------------------------------------------------------
(* Evaluation of an expression in a namespace *)

\* namespace[name] = value
Store(ns, name, v) == (name :> v) @@ ns

EvListOk(vals, ns) == [exc |-> "", vals |-> vals, ns |-> ns]
EvListRaise(e, ns) == [exc |-> e, vals |-> <<>>, ns |-> ns]

\* op applied after the operands were evaluated, in the namespace they left.
Then(r, ns) == [exc |-> r.exc, val |-> r.val, ns |-> ns]

RECURSIVE Eval(_, _)
RECURSIVE EvalAll(_, _)
RECURSIVE EvalCompare(_, _, _, _)
RECURSIVE KeywordValues(_)
RECURSIVE Rekey(_, _)

KeywordValues(kws) ==
    IF Len(kws) = 0 THEN <<>> ELSE <<kws[1].value>> \o KeywordValues(Tail(kws))

\* The keywords with their values evaluated.
Rekey(kws, vals) ==
    IF Len(kws) = 0 THEN <<>>
    ELSE <<Keyword(kws[1].arg, vals[1])>> \o Rekey(Tail(kws), Tail(vals))

EvalAll(nodes, ns) ==
    IF Len(nodes) = 0 THEN EvListOk(<<>>, ns)
    ELSE LET first == Eval(nodes[1], ns)
         IN  IF Raised(first) THEN EvListRaise(first.exc, first.ns)
             ELSE LET rest == EvalAll(Tail(nodes), first.ns)
                  IN  IF Raised(rest) THEN rest
                      ELSE EvListOk(<<first.val>> \o rest.vals, rest.ns)

\* left op1 c1 op2 c2 ...: each comparator is evaluated once, and the chain
\* stops at the first comparison that is false.
EvalCompare(left, ops, comparators, ns) ==
    IF Len(ops) = 0 THEN EvOk(BoolV(TRUE), ns)
    ELSE LET right == Eval(comparators[1], ns)
         IN  IF Raised(right) THEN right
             ELSE LET c == CompareValues(ops[1], left, right.val)
                  IN  IF Raised(c) \/ ~Truthy(c.val) \/ Len(ops) = 1
                      THEN Then(c, right.ns)
                      ELSE EvalCompare(right.val, Tail(ops),
                                       Tail(comparators), right.ns)

Eval(n, ns) ==
    CASE n.type = "Constant" -> EvOk(n.value, ns)
      [] n.type = "Name" ->
            IF NameStr(n.id) \in DOMAIN ns THEN EvOk(ns[NameStr(n.id)], ns)
            ELSE IF NameStr(n.id) \in DOMAIN Builtins
            THEN EvOk(Builtins[NameStr(n.id)], ns)
            ELSE EvRaise("NameError", ns)
      [] n.type = "BinOp" ->
            LET l == Eval(n.left, ns)
            IN  IF Raised(l) THEN l
                ELSE LET r == Eval(n.right, l.ns)
                     IN  IF Raised(r) THEN r
                         ELSE Then(Arith(n.op, l.val, r.val), r.ns)
      [] n.type = "UnaryOp" ->
            LET x == Eval(n.operand, ns)
            IN  IF Raised(x) THEN x ELSE Then(Unary(n.op, x.val), x.ns)
      [] n.type = "Call" ->
            LET f == Eval(n.func, ns)
            IN  IF Raised(f) THEN f
                ELSE LET args == EvalAll(n.args, f.ns)
                     IN  IF Raised(args) THEN EvRaise(args.exc, args.ns)
                         ELSE LET kws == EvalAll(KeywordValues(n.keywords),
                                                 args.ns)
                              IN  IF Raised(kws) THEN EvRaise(kws.exc, kws.ns)
                                  ELSE IF f.val.kind # "func"
                                  THEN EvRaise("TypeError", kws.ns)
                                  ELSE Then(ApplyFunc(f.val.s, args.vals,
                                                Rekey(n.keywords, kws.vals)),
                                            kws.ns)
      [] n.type = "NamedExpr" ->
            LET v == Eval(n.value, ns)
            IN  IF Raised(v) THEN v
                ELSE EvOk(v.val, Store(v.ns, NameStr(n.target.id), v.val))
      [] n.type = "IfExp" ->
            LET test == Eval(n.test, ns)
            IN  IF Raised(test) THEN test
                ELSE IF Truthy(test.val) THEN Eval(n.body, test.ns)
                ELSE Eval(n.orelse, test.ns)
      [] n.type = "Compare" ->
            LET left == Eval(n.left, ns)
            IN  IF Raised(left) THEN left
                ELSE EvalCompare(left.val, n.ops, n.comparators, left.ns)

\* exec() of one statement that assigns to a plain name: [exc, ns].  exec
\* puts __builtins__ into a namespace that lacks it before it runs the
\* code, and what the statement did before it raised stays done.
WithBuiltins(ns) ==
    IF "__builtins__" \in DOMAIN ns THEN ns
    ELSE Store(ns, "__builtins__", ModuleV("builtins"))

\* The name bound to the value v, unless evaluating it raised.
Bound(v, name) ==
    IF Raised(v) THEN [exc |-> v.exc, ns |-> v.ns]
    ELSE [exc |-> "", ns |-> Store(v.ns, name, v.val)]

\* A variant of ExecAssign: a statement that raises leaves the namespace as
\* it was before it.
ExecAssignOrDiscard(stmt, ns) ==
    IF Raised(Eval(stmt.value, WithBuiltins(ns)))
    THEN [exc |-> Eval(stmt.value, WithBuiltins(ns)).exc, ns |-> ns]
    ELSE Bound(Eval(stmt.value, WithBuiltins(ns)), NameStr(stmt.targets[1].id))

ExecAssign(stmt, ns) ==
    Bound(Eval(stmt.value, WithBuiltins(ns)), NameStr(stmt.targets[1].id))

\* old op v, for the target's value old and the right side's value v.
AugValue(op, old, v) ==
    IF Raised(v) THEN v ELSE Then(Arith(op, old.val, v.val), v.ns)

\* The target is read first, then the right side is evaluated.
AugFrom(stmt, old) ==
    IF Raised(old) THEN old
    ELSE AugValue(stmt.op, old, Eval(stmt.value, old.ns))

ExecAugAssign(stmt, ns) ==
    Bound(AugFrom(stmt, Eval(stmt.target, WithBuiltins(ns))),
          NameStr(stmt.target.id))

--------------------------------------------------------------------------
(* python_to_latex *)

\* The namespace python_to_latex starts from.  pi and e are given to six
\* decimals, which is more than any rendering shows.
InitialNamespace ==
    [sqrt |-> FuncV("sqrt"), abs |-> FuncV("abs"),
     sin |-> FuncV("sin"), cos |-> FuncV("cos"), tan |-> FuncV("tan"),
     asin |-> FuncV("asin"), acos |-> FuncV("acos"), atan |-> FuncV("atan"),
     sinh |-> FuncV("sinh"), cosh |-> FuncV("cosh"), tanh |-> FuncV("tanh"),
     log |-> FuncV("log"), log10 |-> FuncV("log10"), exp |-> FuncV("exp"),
     pi |-> FloatV(3141593, 1000000), e |-> FloatV(2718282, 1000000),
     j |-> ComplexV(0, 1, 1, 1),
     max |-> FuncV("max"), min |-> FuncV("min"),
     round |-> FuncV("round"),
     pow |-> FuncV("pow")]

\* The statements the loop executes: var = expr and var op= expr.
IsAssignToName(stmt) ==
    /\ stmt.type = "Assign"
    /\ Len(stmt.targets) = 1
    /\ stmt.targets[1].type = "Name"

IsAugAssignToName(stmt) ==
    /\ ~(stmt.type = "Assign" /\ Len(stmt.targets) = 1)
    /\ stmt.type = "AugAssign"
    /\ stmt.target.type = "Name"

Executes(stmt) == IsAssignToName(stmt) \/ IsAugAssignToName(stmt)

Exec(stmt, ns) ==
    IF IsAssignToName(stmt) THEN ExecAssign(stmt, ns)
    ELSE ExecAugAssign(stmt, ns)

TargetOf(stmt) ==
    IF stmt.type = "Assign" THEN stmt.targets[1].id ELSE stmt.target.id

\* A variant of PartsOf: the substituted part is shown whenever it is asked
\* for.
PartsRepeated(sym, sub, res, symbolic, substituted, again, value_str) ==
    IF Raised(symbolic) THEN ListRaise(symbolic.exc)
    ELSE IF Raised(substituted) THEN ListRaise(substituted.exc)
    ELSE IF Raised(again) THEN ListRaise(again.exc)
    ELSE ListOk((IF sym THEN <<symbolic.s>> ELSE <<>>)
                \o (IF sub THEN <<substituted.s>> ELSE <<>>)
                \o (IF res THEN <<value_str>> ELSE <<>>))

\* parts, from the renderings: `again` is the second expr_to_latex(expr)
\* that substituted is compared with.
PartsOf(sym, sub, res, symbolic, substituted, again, value_str) ==
    IF Raised(symbolic) THEN ListRaise(symbolic.exc)
    ELSE IF Raised(substituted) THEN ListRaise(substituted.exc)
    ELSE IF Raised(again) THEN ListRaise(again.exc)
    ELSE ListOk((IF sym THEN <<symbolic.s>> ELSE <<>>)
                \o (IF sub /\ (~sym \/ substituted.s # again.s)
                    THEN <<substituted.s>> ELSE <<>>)
                \o (IF res THEN <<value_str>> ELSE <<>>))

\* The parts of the line of a calculation, joined by " = ": ns is the
\* namespace after the statement was executed.
CalcParts(expr, value_str, ns, sym, sub, res) ==
    PartsOf(sym, sub, res,
            IF sym THEN expr_to_latex(expr, ns) ELSE Ok(""),
            IF sub THEN substitute_values(expr, ns) ELSE Ok(""),
            IF sub /\ sym THEN expr_to_latex(expr, ns) ELSE Ok(""),
            value_str)

\* A variant of is_simple: only a literal right side is simple.
is_literal(stmt) == stmt.value.type = "Constant"

is_simple(stmt) == stmt.type = "AugAssign" \/ stmt.value.type = "Constant"

Line(var_latex, right) ==
    [exc |-> "", line |-> var_latex \o " &= " \o right, is_simple |-> FALSE]

CalcLine(var_latex, parts) ==
    IF Raised(parts) THEN [exc |-> parts.exc, line |-> "", is_simple |-> FALSE]
    ELSE Line(var_latex, Join(parts.list, " = "))

LineFrom(stmt, ns, sym, sub, res, value_str) ==
    IF Raised(value_str)
    THEN [exc |-> value_str.exc, line |-> "", is_simple |-> is_simple(stmt)]
    ELSE IF is_simple(stmt)
    THEN [Line(name_to_latex(TargetOf(stmt)), value_str.s)
             EXCEPT !.is_simple = TRUE]
    ELSE CalcLine(name_to_latex(TargetOf(stmt)),
                  CalcParts(stmt.value, value_str.s, ns, sym, sub, res))

\* The line of an executed statement and its simple flag, or the exception
\* that rendering it raised.
LineOf(stmt, ns, sym, sub, res) ==
    LineFrom(stmt, ns, sym, sub, res,
             format_value(ns[NameStr(TargetOf(stmt))]))

\* A variant of Separator: the wide break after a calculation instead.
SeparatorAfterCalculation(flags, k) ==
    IF ~flags[k - 1] /\ flags[k] THEN "\\\\[10pt]" ELSE "\\\\"

\* The separator before line k (k > 1) of the block.
Separator(flags, k) ==
    IF flags[k - 1] /\ ~flags[k] THEN "\\\\[10pt]" ELSE "\\\\"

RECURSIVE BuildResultLines(_, _, _)
BuildResultLines(lines, flags, k) ==
    IF k > Len(lines) THEN <<>>
    ELSE (IF k > 1 THEN <<Separator(flags, k)>> ELSE <<>>)
         \o <<lines[k]>> \o BuildResultLines(lines, flags, k + 1)

Aligned(lines) ==
    "\\begin{aligned}\n" \o Join(lines, "\n") \o "\n\\end{aligned}"

Current == code[pos + 1]

InLoop == pc = "loop" /\ pos < Len(code)

rest == <<code, show_symbolic, show_substitution, show_result,
          node, ns_in, rendered>>

\* A statement that is neither var = expr nor var op= expr is passed over.
SkipStatement ==
    /\ InLoop
    /\ ~Executes(Current)
    /\ pos' = pos + 1
    /\ UNCHANGED <<namespace, latex_lines, simple_assignments, pc,
                   result_lines, latex, rest>>

\* exec raised: the statement gives no line.
FailStatement ==
    /\ InLoop
    /\ Executes(Current)
    /\ \E r \in {Exec(Current, namespace)} :
           /\ Raised(r)
           /\ namespace' = r.ns
    /\ pos' = pos + 1
    /\ UNCHANGED <<latex_lines, simple_assignments, pc, result_lines, latex,
                   rest>>

\* exec gave a value, and its line is appended.
RenderStatement ==
    /\ InLoop
    /\ Executes(Current)
    /\ \E r \in {Exec(Current, namespace)} :
           /\ ~Raised(r)
           /\ \E l \in {LineOf(Current, r.ns, show_symbolic,
                               show_substitution, show_result)} :
                  /\ ~Raised(l)
                  /\ latex_lines' = Append(latex_lines, l.line)
                  /\ simple_assignments' =
                         Append(simple_assignments, l.is_simple)
           /\ namespace' = r.ns
    /\ pos' = pos + 1
    /\ UNCHANGED <<pc, result_lines, latex, rest>>

\* exec gave a value, and rendering it raised: nothing catches that, and
\* python_to_latex ends with the exception.
RaiseStatement ==
    /\ InLoop
    /\ Executes(Current)
    /\ \E r \in {Exec(Current, namespace)} :
           /\ ~Raised(r)
           /\ \E l \in {LineOf(Current, r.ns, show_symbolic,
                               show_substitution, show_result)} :
                  Raised(l)
           /\ namespace' = r.ns
    /\ pc' = "raised"
    /\ UNCHANGED <<latex_lines, simple_assignments, pos, result_lines, latex,
                   rest>>

\* After the loop: the aligned block, or "" when there is no line.
Assemble ==
    /\ pc = "loop"
    /\ pos = Len(code)
    /\ result_lines' = BuildResultLines(latex_lines, simple_assignments, 1)
    /\ latex' = IF Len(latex_lines) > 0 THEN Aligned(result_lines') ELSE ""
    /\ pc' = "returned"
    /\ UNCHANGED <<namespace, latex_lines, simple_assignments, pos, rest>>

--------------------------------------------------------------------------
(* The inputs *)

MaxStmts == 2

Num(i) == Constant(IntV(i))
Var(s) == Name(<<s>>)

\* Each statement carries the source text it was parsed from.
Src(stmt, text) == [s \in DOMAIN stmt \cup {"src"} |->
                       IF s = "src" THEN text ELSE stmt[s]]

Statements ==
    { Src(Assign(<<Var("x")>>, Num(5)), "x = 5"),
      Src(Assign(<<Var("t")>>, Constant(BoolV(TRUE))), "t = True"),
      Src(Assign(<<Var("x")>>, BinOp(Var("x"), "Add", Num(1))), "x = x + 1"),
      Src(Assign(<<Var("w")>>,
                 BinOp(BinOp(Var("x"), "Add", Num(1)), "Mult", Var("x"))),
          "w = (x + 1) * x"),
      Src(Assign(<<Var("q")>>, BinOp(Num(7), "Div", Num(2))), "q = 7 / 2"),
      Src(Assign(<<Var("u")>>, Var("t")), "u = t"),
      Src(Assign(<<Var("c")>>, BinOp(Num(3), "Add", Var("j"))), "c = 3 + j"),
      Src(Assign(<<Name(<<"Gamma", "L">>)>>,
                 Call(Var("max"), <<Var("x"), Num(2)>>, <<>>)),
          "Gamma_L = max(x, 2)"),
      Src(Assign(<<Var("u")>>, BinOp(Var("nope"), "Add", Num(1))),
          "u = nope + 1"),
      Src(Assign(<<Var("v")>>,
                 BinOp(NamedExpr(Var("y"), Num(7)), "Add", Var("nope"))),
          "v = (y := 7) + nope"),
      Src(Assign(<<Var("r")>>,
                 Call(Var("round"), <<>>,
                      <<Keyword("number", Constant(FloatV(5, 2)))>>)),
          "r = round(number=2.5)"),
      Src(Assign(<<Var("h")>>, Constant(InfV(1))), "h = 1e400"),
      Src(AugAssign(Var("x"), "Add", BinOp(Var("x"), "Mult", Num(2))),
          "x += x * 2"),
      Src(AugAssign(Var("x"), "Mult", BinOp(Var("x"), "Sub", Var("nope"))),
          "x *= x - nope"),
      Src(AugAssign(Subscript(Var("x"), Num(0)), "Add", Num(1)), "x[0] += 1"),
      Src(Assign(<<Tuple(<<Var("a"), Var("b")>>)>>, Tuple(<<Num(1), Num(2)>>)),
          "a, b = 1, 2"),
      Src(Assign(<<Var("a"), Var("b")>>, Num(1)), "a = b = 1"),
      Src(Expr(Call(Var("print"), <<Var("x")>>, <<>>)), "print(x)"),
      Src(Import("math"), "import math") }

\* The sequences of at most n statements.
RECURSIVE Programs(_)
Programs(n) ==
    IF n = 0 THEN {<<>>}
    ELSE LET shorter == Programs(n - 1)
         IN  shorter \cup {Append(p, s) : p \in shorter, s \in Statements}

NoNode == Num(0)
NotRendered == [symbolic |-> Raise("none"), substituted |-> Raise("none")]

Init ==
    /\ code \in Programs(MaxStmts)
    /\ show_symbolic \in BOOLEAN
    /\ show_substitution \in BOOLEAN
    /\ show_result \in BOOLEAN
    /\ namespace = InitialNamespace
    /\ latex_lines = <<>>
    /\ simple_assignments = <<>>
    /\ pos = 0
    /\ pc = "loop"
    /\ result_lines = <<>>
    /\ latex = ""
    /\ node = NoNode
    /\ ns_in = InitialNamespace
    /\ rendered = NotRendered

Next ==
    \/ SkipStatement
    \/ FailStatement
    \/ RenderStatement
    \/ RaiseStatement
    \/ Assemble

Spec == Init /\ [][Next]_vars

--------------------------------------------------------------------------
(* expr_to_latex and substitute_values on their own: one tree and one
   namespace, rendered both ways *)

Operators == {"Add", "Sub", "Mult", "Div", "FloorDiv", "Pow", "Mod", "BitAnd"}

Operands ==
    {Var("a"), Var("b"), Var("j"), Num(2), UnaryOp("USub", Var("a")),
     Call(Var("sqrt"), <<Var("a")>>, <<>>)}
    \cup {BinOp(Var("a"), op, Var("b")) : op \in Operators}

Trees == Operands \cup {BinOp(l, op, r) : l, r \in Operands, op \in Operators}

\* The seeded namespace, and a bound to a value of each kind.
Environments ==
    {InitialNamespace}
    \cup {Store(InitialNamespace, "a", v) :
             v \in {IntV(5), BoolV(TRUE), FloatV(5, 2), FloatV(2, 1),
                    ComplexV(3, 1, 1, 1), NoneV}}

InitRender ==
    /\ node \in Trees
    /\ ns_in \in Environments
    /\ rendered = NotRendered
    /\ pc = "render"
    /\ code = <<>>
    /\ show_symbolic = TRUE
    /\ show_substitution = TRUE
    /\ show_result = TRUE
    /\ namespace = InitialNamespace
    /\ latex_lines = <<>>
    /\ simple_assignments = <<>>
    /\ pos = 0
    /\ result_lines = <<>>
    /\ latex = ""

Render ==
    /\ pc = "render"
    /\ rendered' = [symbolic |-> expr_to_latex(node, ns_in),
                    substituted |-> substitute_values(node, ns_in)]
    /\ pc' = "rendered"
    /\ UNCHANGED <<code, show_symbolic, show_substitution, show_result,
                   namespace, latex_lines, simple_assignments, pos,
                   result_lines, latex, node, ns_in>>

NextRender == Render

SpecRender == InitRender /\ [][NextRender]_vars

--------------------------------------------------------------------------
(* The renderers' properties *)

Wrapped(s) == "\\left(" \o s \o "\\right)"

Additive(n) == n.type = "BinOp" /\ n.op \in {"Add", "Sub"}

\* Where the operands of the BinOp n are to be wrapped.
WrapsLeft(n) == Additive(n.left) /\ n.op \in {"Mult", "Div", "Pow"}
WrapsRight(n) == Additive(n.right) /\ n.op \in {"Mult", "Pow"}

\* The BinOp n written from its operands l and r as rendered, each wrapped
\* where it is to be.
WrappedBinOp(n, l, r) ==
    BinOpTemplate(n.op,
                  IF WrapsLeft(n) THEN Wrapped(l) ELSE l,
                  IF WrapsRight(n) THEN Wrapped(r) ELSE r)

\* C7: the symbolic rendering of a BinOp wraps its left operand exactly when
\* that operand is a BinOp with + or - and the outer operator is *, / or **,
\* and its right operand under the same condition but never under /; no
\* operand is wrapped otherwise.
C7_SymbolicParentheses ==
    pc = "rendered" /\ node.type = "BinOp" =>
        rendered.symbolic =
            Ok(WrappedBinOp(node, expr_to_latex(node.left, ns_in).s,
                            expr_to_latex(node.right, ns_in).s))

\* (a + b) / (a - b): the numerator is wrapped, the denominator is not.
C7_Witness ==
    /\ pc = "rendered"
    /\ node = BinOp(BinOp(Var("a"), "Add", Var("b")), "Div",
                    BinOp(Var("a"), "Sub", Var("b")))
    /\ rendered.symbolic = Ok("\\frac{\\left(a + b\\right)}{a - b}")

\* C8: in the substituted rendering a name bound in the namespace is written
\* as format_value writes its value, and a name is written as name_to_latex
\* writes it exactly when it is not bound.
C8_BoundNameFormatted ==
    pc = "rendered" /\ node.type = "Name" =>
        rendered.substituted =
            IF NameStr(node.id) \in DOMAIN ns_in
            THEN format_value(ns_in[NameStr(node.id)])
            ELSE Ok(name_to_latex(node.id))

\* C9: the substituted rendering of a BinOp wraps its operands in the
\* positions where the symbolic rendering wraps them.
C9_SubstitutedParentheses ==
    /\ pc = "rendered"
    /\ node.type = "BinOp"
    /\ node.op \in {"Add", "Sub", "Mult", "Div", "Pow", "Mod"}
    => rendered.substituted =
           Ok(WrappedBinOp(node, substitute_values(node.left, ns_in).s,
                           substitute_values(node.right, ns_in).s))

--------------------------------------------------------------------------
(* python_to_latex's properties *)

\* The statements that are rendered if they evaluate: var = expr, var op= expr.
Accepted(stmt) ==
    \/ /\ stmt.type = "Assign"
       /\ Len(stmt.targets) = 1
       /\ stmt.targets[1].type = "Name"
    \/ /\ stmt.type = "AugAssign"
       /\ stmt.target.type = "Name"

Target(stmt) ==
    IF stmt.type = "Assign" THEN stmt.targets[1].id ELSE stmt.target.id

\* What an accepted statement computes: var op= expr computes var op expr.
Computed(stmt) ==
    IF stmt.type = "Assign" THEN stmt.value
    ELSE BinOp(stmt.target, stmt.op, stmt.value)

Evaluated(stmt, env) == Eval(Computed(stmt), WithBuiltins(env))

\* A right side that is a literal, or an augmented assignment.
Trivial(stmt) ==
    \/ stmt.type = "AugAssign"
    \/ stmt.type = "Assign" /\ stmt.value.type = "Constant"

\* Apply or discard: a statement that evaluates binds its target, and one
\* that raises, or is not accepted, leaves the environment as it was.
Discarding(stmt, env) ==
    IF ~Accepted(stmt) \/ Raised(Evaluated(stmt, env)) THEN env
    ELSE Store(env, NameStr(Target(stmt)), Evaluated(stmt, env).val)

RECURSIVE EnvDiscarding(_)
EnvDiscarding(i) ==
    IF i = 0 THEN InitialNamespace
    ELSE Discarding(code[i], EnvDiscarding(i - 1))

\* No rollback: whatever evaluating an accepted statement bound stays bound,
\* and the target is bound as well if the statement did not raise.
Outcome(v, name) ==
    IF Raised(v) THEN v.ns ELSE Store(v.ns, name, v.val)

Keeping(stmt, env) ==
    IF ~Accepted(stmt) THEN env
    ELSE Outcome(Evaluated(stmt, env), NameStr(Target(stmt)))

RECURSIVE EnvKeeping(_)
EnvKeeping(i) ==
    IF i = 0 THEN InitialNamespace ELSE Keeping(code[i], EnvKeeping(i - 1))

\* The namespace without the entry exec adds to it.
Visible(ns) == [k \in (DOMAIN ns) \ {"__builtins__"} |-> ns[k]]

\* Statement i is accepted and evaluates without an error.
Qualifies(i) ==
    Accepted(code[i]) /\ ~Raised(Evaluated(code[i], EnvKeeping(i - 1)))

\* C1: when the call has ended there is one line for each statement that is
\* accepted and evaluates without an error, and the output is empty exactly
\* when there is no such statement.
C1_LinesOfQualifying ==
    pc \in {"returned", "raised"} =>
        /\ Len(latex_lines) =
               Cardinality({i \in 1..Len(code) : Qualifies(i)})
        /\ latex = "" <=> \A i \in 1..Len(code) : ~Qualifies(i)

\* C2: no exception reaches the caller of python_to_latex.
C2_NeverRaises == pc # "raised"

\* C3, as stated: when statement pos + 1 is about to be evaluated, the
\* environment is the seeded one updated by the target bindings of the
\* earlier statements that evaluated, a failed statement being rolled
\* back.
C3_ApplyOrDiscard ==
    pc = "loop" => Visible(namespace) = EnvDiscarding(pos)

\* C3, amended: when statement pos + 1 is about to be evaluated, the
\* environment is the seeded one with `__builtins__` added by the first
\* exec and with everything the earlier accepted statements bound: the
\* target of each one that evaluated, and the names bound inside an
\* expression before it raised; statements that are not accepted change
\* nothing.
C3_EffectsKept ==
    pc = "loop" => namespace = EnvKeeping(pos)

\* v = (y := 7) + nope raised: y is bound, v is not.
C3_Witness ==
    /\ pc = "loop"
    /\ pos = 1
    /\ Len(code) > 1
    /\ code[1].src = "v = (y := 7) + nope"
    /\ "y" \in DOMAIN namespace
    /\ namespace["y"] = IntV(7)
    /\ "v" \notin DOMAIN namespace

\* C4: in the block, line k is at position 2k - 1 and the separator before
\* it (k > 1) is the wide break exactly when line k - 1 is trivial and line
\* k is not, and the normal break otherwise: n lines, n - 1 separators.
C4_Separators ==
    pc = "returned" =>
        /\ Len(result_lines) =
               (IF latex_lines = <<>> THEN 0 ELSE 2 * Len(latex_lines) - 1)
        /\ \A k \in 1..Len(latex_lines) :
               result_lines[2 * k - 1] = latex_lines[k]
        /\ \A k \in 2..Len(latex_lines) :
               result_lines[2 * k - 2] =
                   IF simple_assignments[k - 1] /\ ~simple_assignments[k]
                   THEN "\\\\[10pt]" ELSE "\\\\"
        /\ latex_lines # <<>> =>
               latex = "\\begin{aligned}\n" \o Join(result_lines, "\n")
                           \o "\n\\end{aligned}"

\* x = 5 and then x = x + 1: a trivial line, the wide break, a calculation.
C4_Witness ==
    /\ pc = "returned"
    /\ simple_assignments = <<TRUE, FALSE>>
    /\ result_lines = <<latex_lines[1], "\\\\[10pt]", latex_lines[2]>>

\* A step of the loop that appends a line, for the statement Current.
Renders == pc = "loop" /\ Len(latex_lines') = Len(latex_lines) + 1

\* The parts by the flags: symbolic if asked for, substituted if asked for
\* and not a repetition of a symbolic part, the result if asked for.
PartsByFlags(symbolic, substituted, result) ==
    (IF show_symbolic THEN <<symbolic>> ELSE <<>>)
    \o (IF show_substitution /\ (~show_symbolic \/ substituted # symbolic)
        THEN <<substituted>> ELSE <<>>)
    \o (IF show_result THEN <<result>> ELSE <<>>)

\* C5: the line of a non-trivial assignment is the identifier, " &= ", and
\* the parts the flags ask for, joined with " = ": each at most once, and
\* none that is disabled.
C5_PartsByFlags ==
    [][Renders /\ ~Trivial(Current) =>
           latex_lines'[Len(latex_lines')] =
               name_to_latex(Target(Current)) \o " &= "
                   \o Join(PartsByFlags(
                               expr_to_latex(Current.value, namespace').s,
                               substitute_values(Current.value, namespace').s,
                               format_value(
                                   namespace'[NameStr(Target(Current))]).s),
                           " = ")]_vars

\* q = 7 / 2 with every flag set: the substituted part would repeat the
\* symbolic one, and is left out.
C5_Witness ==
    /\ show_symbolic /\ show_substitution /\ show_result
    /\ pos = 1
    /\ code[1].src = "q = 7 / 2"
    /\ latex_lines = <<"q &= \\frac{7}{2} = 3.5">>

\* C6: a rendered assignment is marked trivial exactly when its right side
\* is a literal, an augmented assignment always; a trivial line is the
\* identifier, " &= ", and the formatted value, whatever the flags.
C6_TrivialLines ==
    [][Renders =>
           /\ simple_assignments' =
                  Append(simple_assignments, Trivial(Current))
           /\ Trivial(Current) =>
                  latex_lines'[Len(latex_lines')] =
                      name_to_latex(Target(Current)) \o " &= "
                          \o format_value(
                                 namespace'[NameStr(Target(Current))]).s]_vars

\* x = 5 and then x += x * 2, with the symbolic and the substituted part
\* asked for: the line shows the value alone.
C6_Witness ==
    /\ show_symbolic /\ show_substitution
    /\ pos = 2
    /\ code[2].src = "x += x * 2"
    /\ simple_assignments = <<TRUE, TRUE>>
    /\ latex_lines = <<"x &= 5", "x &= 15">>

\* C10: the substituted part of a calculation shows, for each name, the
\* value it had when the right side was evaluated, before the target was
\* bound.
C10_ValuesBeforeBinding ==
    /\ pc = "loop"
    /\ Len(latex_lines) = pos
    /\ ~show_symbolic /\ show_substitution /\ ~show_result
    => \A k \in 1..pos :
           ~Trivial(code[k]) =>
               latex_lines[k] =
                   name_to_latex(Target(code[k])) \o " &= "
                       \o substitute_values(code[k].value,
                                            EnvKeeping(k - 1)).s

==========================================================================
